---- MODULE Spec2Model ----
(***************************************************************************)
(* A model of the AI travel agent: the three tools of                       *)
(* tools/logistic_tools.py (FlightSearchTool, CityToIATATool,               *)
(* POISearchTool) and the TravelAgentOrchestrator of main.py that           *)
(* sequences them into an ItineraryPlan.                                    *)
(*                                                                         *)
(* A Python str is a sequence of one-character strings, so that the        *)
(* regular expression, str.upper, str.strip, str.replace, slicing and      *)
(* concatenation are computed on characters as the code computes them.     *)
(***************************************************************************)
EXTENDS Integers, Sequences, FiniteSets, TLC

VARIABLES
    tavily_key,       \* os.getenv('TAVILY_API_KEY') is set
    amadeus_creds,    \* AMADEUS_CLIENT_ID and AMADEUS_CLIENT_SECRET are set
    departure_city,   \* plan_trip's arguments
    arrival_city,
    start_date,
    end_date,
    pc,               \* position of the run inside plan_trip
    invoked,          \* the tools' _run methods called so far, in order
    calls,            \* the requests issued to the external providers, in order
    dep_lookup,       \* lookup_iata_code(departure_city)
    arr_lookup,       \* lookup_iata_code(arrival_city)
    departure_iata,   \* search_flights' locals
    arrival_iata,
    token,            \* FlightSearchTool._run's bearer token, once obtained
    response,         \* the flight-offer provider's answer to the query
    result,           \* FlightSearchTool._run's return value
    flights,          \* search_flights' return value
    poi_info,         \* search_poi's return value
    flight_options,   \* plan_trip's local list of FlightOption
    itinerary,        \* plan_trip's return value
    exception,        \* the exception that left plan_trip, if any, and where it arose
    text,             \* the extractor harness: the input text
    extracted,        \* _extract_iata_code(text)
    tool_code         \* what CityToIATATool._run returns for content = text

vars == << tavily_key, amadeus_creds, departure_city, arrival_city, start_date,
           end_date, pc, invoked, calls, dep_lookup, arr_lookup, departure_iata,
           arrival_iata, token, response, result, flights, poi_info, flight_options,
           itinerary, exception, text, extracted, tool_code >>

-----------------------------------------------------------------------------
(* Characters *)

UpperSeq ==
    << "A","B","C","D","E","F","G","H","I","J","K","L","M",
       "N","O","P","Q","R","S","T","U","V","W","X","Y","Z" >>

LowerSeq ==
    << "a","b","c","d","e","f","g","h","i","j","k","l","m",
       "n","o","p","q","r","s","t","u","v","w","x","y","z" >>

DigitSeq == << "0","1","2","3","4","5","6","7","8","9" >>

Range(s) == { s[i] : i \in DOMAIN s }

UpperLetters == Range(UpperSeq)

LowerLetters == Range(LowerSeq)

Digits == Range(DigitSeq)

Whitespace == { " ", "\n", "\t" }

\* \w of Python's re for the characters used here
IsWordChar(c) == c \in UpperLetters \cup LowerLetters \cup Digits \cup {"_"}

\* str.upper, one character
UpperChar(c) ==
    IF c \in LowerLetters
    THEN UpperSeq[CHOOSE i \in DOMAIN LowerSeq : LowerSeq[i] = c]
    ELSE c

\* str.upper
Upper(s) == [ i \in DOMAIN s |-> UpperChar(s[i]) ]

\* str.strip
Strip(s) ==
    LET keep == { i \in DOMAIN s : s[i] \notin Whitespace }
    IN  IF keep = {} THEN << >>
        ELSE LET lo == CHOOSE i \in keep : \A j \in keep : i <= j
                 hi == CHOOSE i \in keep : \A j \in keep : j <= i
             IN  SubSeq(s, lo, hi)

\* str.replace(old, new): leftmost, non-overlapping occurrences
RECURSIVE Replace(_, _, _)
Replace(s, old, new) ==
    IF Len(s) < Len(old) THEN s
    ELSE IF SubSeq(s, 1, Len(old)) = old
         THEN new \o Replace(SubSeq(s, Len(old) + 1, Len(s)), old, new)
         ELSE << Head(s) >> \o Replace(Tail(s), old, new)

-----------------------------------------------------------------------------
(* The regular expression \b([A-Z]{3})\b *)

\* \b at the gap before position i of s (i = Len(s) + 1: the end of s)
WordBoundary(s, i) ==
    LET before == i > 1 /\ IsWordChar(s[i - 1])
        after  == i <= Len(s) /\ IsWordChar(s[i])
    IN  before # after

\* the pattern matches s at position i
MatchAt(s, i) ==
    /\ i + 2 <= Len(s)
    /\ WordBoundary(s, i)
    /\ \A k \in i .. i + 2 : s[k] \in UpperLetters
    /\ WordBoundary(s, i + 3)

\* re.search(r'\b([A-Z]{3})\b', s): the leftmost match and its group(1), or
\* no match (Python's None)
ReSearch(s) ==
    LET hits == { i \in DOMAIN s : MatchAt(s, i) }
    IN  IF hits = {} THEN [ matched |-> FALSE, group1 |-> << >> ]
        ELSE LET first == CHOOSE i \in hits : \A j \in hits : i <= j
             IN  [ matched |-> TRUE, group1 |-> SubSeq(s, first, first + 2) ]

\* TravelAgentOrchestrator._extract_iata_code
_extract_iata_code(r) ==
    LET match == ReSearch(Upper(Strip(r)))
    IN  IF match.matched THEN match.group1 ELSE << >>

-----------------------------------------------------------------------------
(* The messages the tools return in place of a result *)

IATAQueryPrefix ==
    << "I","A","T","A"," ","a","i","r","p","o","r","t"," ","c","o","d","e"," " >>

POIQueryPrefix ==
    << "T","o","p"," ","5"," ","m","u","s","t","-","s","e","e"," ","t","o","u","r","i","s","t"," ",
    "a","t","t","r","a","c","t","i","o","n","s",","," ","b","e","s","t"," ","r","e","s","t","a",
    "u","r","a","n","t","s",","," ","a","n","d"," ","r","e","c","o","m","m","e","n","d","e","d",
    " ","i","t","i","n","e","r","a","r","y"," ","f","o","r"," ","a"," ","7","-","d","a","y"," ",
    "t","r","i","p"," ","t","o"," " >>

POIQuerySuffix ==
    << "."," ","F","o","c","u","s"," ","o","n"," ","n","a","m","e","s"," ","a","n","d"," ","d","e",
    "s","c","r","i","p","t","i","o","n","s","." >>

RequestFailedDetail ==
    << "5","0","3"," ","S","e","r","v","e","r"," ","E","r","r","o","r",":"," ","S","e","r","v","i",
    "c","e"," ","U","n","a","v","a","i","l","a","b","l","e" >>

AuthFailedDetail ==
    << "4","0","1"," ","C","l","i","e","n","t"," ","E","r","r","o","r",":"," ","U","n","a","u","t",
    "h","o","r","i","z","e","d" >>

SearchFailedDetail ==
    << "C","o","n","n","e","c","t","i","o","n"," ","t","i","m","e","d"," ","o","u","t" >>

KeyErrorResults ==
    << "'","r","e","s","u","l","t","s","'" >>

KeyErrorContent ==
    << "'","c","o","n","t","e","n","t","'" >>

KeyErrorAccessToken ==
    << "'","a","c","c","e","s","s","_","t","o","k","e","n","'" >>

SpecExampleCode ==
    << "T","h","e"," ","c","o","d","e"," ","i","s"," ","J","F","K"," ","a","i","r","p","o","r","t" >>

SpecExampleNone ==
    << "n","o"," ","c","o","d","e","s"," ","h","e","r","e" >>

Ellipsis ==
    << ".",".","." >>

NotAvailable ==
    << "N","/","A" >>

KeyMissingIATA ==
    << "T","A","V","I","L","Y","_","A","P","I","_","K","E","Y"," ","i","s"," ","m","i","s","s","i",
    "n","g","."," ","C","a","n","n","o","t"," ","p","e","r","f","o","r","m"," ","I","A","T","A",
    " ","l","o","o","k","u","p","." >>

KeyMissingPOI ==
    << "T","A","V","I","L","Y","_","A","P","I","_","K","E","Y"," ","i","s"," ","m","i","s","s","i",
    "n","g","."," ","C","a","n","n","o","t"," ","p","e","r","f","o","r","m"," ","P","O","I"," ",
    "s","e","a","r","c","h","." >>

CouldNotFindPrefix ==
    << "C","o","u","l","d"," ","n","o","t"," ","f","i","n","d"," ","I","A","T","A"," ","c","o","d",
    "e"," ","f","o","r"," " >>

CouldNotFindSuffix ==
    << " ","v","i","a"," ","s","e","a","r","c","h","." >>

CouldNotExtractPrefix ==
    << "C","o","u","l","d"," ","n","o","t"," ","e","x","t","r","a","c","t"," ","I","A","T","A"," ",
    "c","o","d","e"," ","f","r","o","m"," ","s","e","a","r","c","h"," ","r","e","s","u","l","t",
    "s"," ","f","o","r"," " >>

IATAErrorPrefix ==
    << "E","r","r","o","r"," ","d","u","r","i","n","g"," ","I","A","T","A"," ","l","o","o","k","u",
    "p",":"," " >>

POIErrorPrefix ==
    << "E","r","r","o","r"," ","d","u","r","i","n","g"," ","P","O","I"," ","s","e","a","r","c","h",
    ":"," " >>

POIHeader ==
    << "W","e","b"," ","S","e","a","r","c","h"," ","R","e","s","u","l","t","s"," ","f","o","r"," ",
    "P","O","I","s",":","\n" >>

POIDivider ==
    << "\n","-","-","-","\n" >>

TokenErrorPrefix ==
    << "E","r","r","o","r"," ","o","b","t","a","i","n","i","n","g"," ","A","m","a","d","e","u","s",
    " ","t","o","k","e","n",":"," " >>

CredsNotSet ==
    << "A","M","A","D","E","U","S","_","C","L","I","E","N","T","_","I","D"," ","o","r"," ","A","M",
    "A","D","E","U","S","_","C","L","I","E","N","T","_","S","E","C","R","E","T"," ","n","o","t",
    " ","s","e","t"," ","i","n"," ",".","e","n","v"," ","f","i","l","e","." >>

NoOffersFound ==
    << "N","o"," ","r","e","a","l","-","t","i","m","e"," ","f","l","i","g","h","t"," ","o","f","f",
    "e","r","s"," ","f","o","u","n","d"," ","f","o","r"," ","t","h","e"," ","s","p","e","c","i",
    "f","i","e","d"," ","c","r","i","t","e","r","i","a","."," ","T","h","e"," ","L","L","M"," ",
    "s","h","o","u","l","d"," ","p","r","o","c","e","e","d"," ","t","o"," ","t","h","e"," ","n",
    "e","x","t"," ","p","l","a","n","n","i","n","g"," ","s","t","e","p","." >>

RequestFailedPrefix ==
    << "A","m","a","d","e","u","s"," ","A","P","I"," ","R","e","q","u","e","s","t"," ","F","a","i",
    "l","e","d",":"," " >>

-----------------------------------------------------------------------------
(* Constants of the program *)

\* poi_info[:500], len(poi_info) > 500
PoiLimit == 500

\* flights[:3]
TopFlights == 3

-----------------------------------------------------------------------------
(* Bounds of the model *)

\* the flight-offer provider answers with at most this many offers
MaxOffers == 4

\* the search provider answers a POI query with at most this many results
MaxResults == 2

\* the longest POI text is this many characters over the truncation limit
MaxOver == 1

\* the length of a short POI snippet
ShortLen == 4

\* the extractor harness tries every text up to this length
MaxTextLen == 5

-----------------------------------------------------------------------------
(* The inputs of a run *)

Oslo == << "O","s","l","o" >>

Rome == << "R","o","m","e" >>

Cities == { Oslo, Rome }

\* a date argument: a str as the command line passes it, or a datetime.date
Dates(day) ==
    { [ type |-> "str", iso |-> day ], [ type |-> "date", iso |-> day ] }

-----------------------------------------------------------------------------
(* What the external providers may answer *)

\* tavily.search for the IATA query: a response body, or an exception
IATAContents ==
    { << "L","H","R" >>, SpecExampleCode, SpecExampleNone, << >> }

IATAOutcomes ==
    { [ raises |-> FALSE, body |-> [ results |-> << [ content |-> c ] >> ] ]
        : c \in IATAContents }
    \cup { [ raises |-> FALSE, body |-> [ results |-> << >> ] ],
           [ raises |-> FALSE, body |-> [ detail |-> << >> ] ],
           [ raises |-> TRUE, msg |-> SearchFailedDetail ] }

\* the k-th snippet of a POI response, n characters long
Snippet(n, k) == [ i \in 1 .. n |-> DigitSeq[((i + k) % 10) + 1] ]

SnippetLens ==
    { ShortLen } \cup { PoiLimit - Len(POIHeader) + d : d \in 0 .. MaxOver }

POIOutcomes ==
    { [ raises |-> FALSE,
        body |-> [ results |-> [ k \in 1 .. n |-> [ content |-> Snippet(l, k) ] ] ] ]
        : n \in 0 .. MaxResults, l \in SnippetLens }
    \cup { [ raises |-> FALSE, body |-> [ results |-> << [ url |-> << >> ] >> ] ],
           [ raises |-> TRUE, msg |-> SearchFailedDetail ] }

\* the auth endpoint: a token, a body without one, or an exception
AuthOutcomes ==
    { [ raises |-> FALSE, body |-> [ access_token |-> "token" ] ],
      [ raises |-> FALSE, body |-> [ error |-> "invalid_client" ] ],
      [ raises |-> TRUE, msg |-> AuthFailedDetail ] }

\* the i-th offer of the provider's catalogue
Offer(i) ==
    [ price |-> [ total |-> << "1", DigitSeq[i + 1], "0" >> ],
      itineraries |->
        << [ duration |-> << "P","T", DigitSeq[i + 1], "H","3","0","M" >>,
             segments |-> << [ carrierCode |-> << UpperSeq[i], UpperSeq[i + 1] >> ] >> ] >> ]

\* an offer that lacks the price field
BadOffer(i) == [ itineraries |-> Offer(i).itineraries ]

\* the flight-offer endpoint: n offers in catalogue order, the bad-th (if any)
\* lacking a field; a body without 'data'; or a RequestException
OfferOutcomes ==
    { [ raises |-> FALSE,
        body |-> [ data |-> [ i \in 1 .. n |-> IF i = bad THEN BadOffer(i) ELSE Offer(i) ] ] ]
        : n \in 0 .. MaxOffers, bad \in 0 .. MaxOffers }
    \cup { [ raises |-> FALSE, body |-> [ meta |-> << >> ] ],
           [ raises |-> TRUE, msg |-> RequestFailedDetail ] }

-----------------------------------------------------------------------------
(* tools/logistic_tools.py *)

\* A tool call yields what it returns (ret), the requests it sent to the
\* providers (sent) and whether an exception left it (raised).

\* get_amadeus_token
get_amadeus_token(creds, outcome) ==
    IF ~creds
    THEN [ raised |-> TRUE, msg |-> CredsNotSet, sent |-> << >> ]
    ELSE LET post == << [ to |-> "auth" ] >>
         IN  IF outcome.raises
             THEN [ raised |-> TRUE, msg |-> outcome.msg, sent |-> post ]
             ELSE IF "access_token" \notin DOMAIN outcome.body
             THEN [ raised |-> TRUE, msg |-> KeyErrorAccessToken, sent |-> post ]
             ELSE [ raised |-> FALSE, token |-> outcome.body.access_token, sent |-> post ]

\* the duration of line 71: replace('PT', '').replace('H', 'h ').replace('M', 'm')
FormatDuration(d) ==
    Replace(Replace(Replace(d, << "P","T" >>, << >>), << "H" >>, << "h"," " >>),
            << "M" >>, << "m" >>)

\* one offer has every field lines 69-71 read
WellFormed(offer) ==
    /\ "price" \in DOMAIN offer
    /\ "total" \in DOMAIN offer.price
    /\ "itineraries" \in DOMAIN offer
    /\ Len(offer.itineraries) >= 1
    /\ "segments" \in DOMAIN offer.itineraries[1]
    /\ Len(offer.itineraries[1].segments) >= 1
    /\ "carrierCode" \in DOMAIN offer.itineraries[1].segments[1]
    /\ "duration" \in DOMAIN offer.itineraries[1]

\* lines 69-77: one offer of the provider as one option
NormalizeOffer(offer) ==
    [ price_usd    |-> offer.price.total,
      airline_code |-> offer.itineraries[1].segments[1].carrierCode,
      duration     |-> FormatDuration(offer.itineraries[1].duration) ]

\* json.dumps: a JSON document holding v
JsonDumps(v) == [ json |-> TRUE, v |-> v ]

\* a str that is no JSON document: every message of the tools starts with a letter
Str(chars) == [ json |-> FALSE, v |-> chars ]

\* FlightSearchTool._run, lines 43-46: the token, or the message returned
FlightSearchTool_auth(creds, outcome) ==
    LET t == get_amadeus_token(creds, outcome)
    IN  IF t.raised
        THEN [ returned |-> TRUE, ret |-> Str(TokenErrorPrefix \o t.msg), sent |-> t.sent ]
        ELSE [ returned |-> FALSE, token |-> t.token, sent |-> t.sent ]

\* FlightSearchTool._run, lines 48-85: only a RequestException is caught
FlightSearchTool_query(departure, arrival, start, end, outcome) ==
    LET get == << [ to |-> "offers",
                    originLocationCode |-> Upper(departure),
                    destinationLocationCode |-> Upper(arrival),
                    departureDate |-> start.iso, returnDate |-> end.iso,
                    adults |-> 1, max |-> 3, currencyCode |-> "USD" ] >>
    IN  IF outcome.raises
        THEN [ raised |-> FALSE, sent |-> get,
               ret |-> Str(RequestFailedPrefix \o outcome.msg) ]
        ELSE LET body == outcome.body
                 rows == IF "data" \in DOMAIN body THEN body.data ELSE << >>
             IN  IF \E i \in DOMAIN rows : ~WellFormed(rows[i])
                 THEN [ raised |-> TRUE, exc |-> "KeyError", sent |-> get ]
                 ELSE LET offers == [ i \in DOMAIN rows |-> NormalizeOffer(rows[i]) ]
                      IN  IF offers = << >>
                          THEN [ raised |-> FALSE, sent |-> get, ret |-> Str(NoOffersFound) ]
                          ELSE [ raised |-> FALSE, sent |-> get, ret |-> JsonDumps(offers) ]

\* CityToIATATool._run, lines 99-120: the search and what is made of its answer
CityToIATATool_search(api_key, city_name, outcome) ==
         LET search == << [ to |-> "search", query |-> IATAQueryPrefix \o city_name,
                            search_depth |-> "basic", max_results |-> 1 ] >>
         IN  IF outcome.raises
             THEN [ ret |-> IATAErrorPrefix \o outcome.msg, sent |-> search ]
             ELSE IF "results" \notin DOMAIN outcome.body
             THEN [ ret |-> IATAErrorPrefix \o KeyErrorResults, sent |-> search ]
             ELSE LET results == outcome.body.results
                  IN  IF results = << >>
                      THEN [ ret |-> CouldNotFindPrefix \o city_name \o CouldNotFindSuffix,
                             sent |-> search ]
                      ELSE IF "content" \notin DOMAIN results[1]
                      THEN [ ret |-> IATAErrorPrefix \o KeyErrorContent, sent |-> search ]
                      ELSE IF results[1].content = << >>
                      THEN [ ret |-> CouldNotFindPrefix \o city_name \o CouldNotFindSuffix,
                             sent |-> search ]
                      ELSE LET iata_match == ReSearch(results[1].content)
                           IN  IF iata_match.matched
                               THEN [ ret |-> iata_match.group1, sent |-> search ]
                               ELSE [ ret |-> CouldNotExtractPrefix \o city_name \o << "." >>,
                                      sent |-> search ]

\* CityToIATATool._run without the test of lines 96-97
CityToIATATool_run_unguarded(api_key, city_name, outcome) ==
    CityToIATATool_search(api_key, city_name, outcome)

\* CityToIATATool._run
CityToIATATool_run(api_key, city_name, outcome) ==
    IF ~api_key
    THEN [ ret |-> KeyMissingIATA, sent |-> << >> ]
    ELSE CityToIATATool_search(api_key, city_name, outcome)

\* "\n---\n".join(summaries)
RECURSIVE Join(_, _)
Join(sep, parts) ==
    IF parts = << >> THEN << >>
    ELSE IF Len(parts) = 1 THEN parts[1]
    ELSE parts[1] \o sep \o Join(sep, Tail(parts))

\* POISearchTool._run
POISearchTool_run(api_key, city_name, outcome) ==
    IF ~api_key
    THEN [ ret |-> KeyMissingPOI, sent |-> << >> ]
    ELSE LET search == << [ to |-> "search",
                            query |-> POIQueryPrefix \o city_name \o POIQuerySuffix,
                            search_depth |-> "advanced", max_results |-> 5 ] >>
         IN  IF outcome.raises
             THEN [ ret |-> POIErrorPrefix \o outcome.msg, sent |-> search ]
             ELSE IF "results" \notin DOMAIN outcome.body
             THEN [ ret |-> POIErrorPrefix \o KeyErrorResults, sent |-> search ]
             ELSE LET results == outcome.body.results
                  IN  IF \E i \in DOMAIN results : "content" \notin DOMAIN results[i]
                      THEN [ ret |-> POIErrorPrefix \o KeyErrorContent, sent |-> search ]
                      ELSE [ ret |-> POIHeader
                                      \o Join(POIDivider,
                                              [ i \in DOMAIN results |-> results[i].content ]),
                             sent |-> search ]

-----------------------------------------------------------------------------
(* main.py: TravelAgentOrchestrator *)

Min(a, b) == IF a <= b THEN a ELSE b

\* search_flights, lines 86-92: json.loads(result), [] on a JSONDecodeError
ParseFlights(r) == IF r.json THEN r.v ELSE << >>

\* flight.get(key, 'N/A')
Get(flight, key) == IF key \in DOMAIN flight THEN flight[key] ELSE NotAvailable

\* lines 156-165 without the [:3]
FlightOptions_all(fl) ==
    [ i \in DOMAIN fl |->
        [ price_usd    |-> Get(fl[i], "price_usd"),
          airline_code |-> Get(fl[i], "airline_code"),
          duration     |-> Get(fl[i], "duration") ] ]

\* plan_trip, lines 156-165
FlightOptions(fl) ==
    IF fl = << >> THEN << >>
    ELSE [ i \in 1 .. Min(TopFlights, Len(fl)) |->
             [ price_usd    |-> Get(fl[i], "price_usd"),
               airline_code |-> Get(fl[i], "airline_code"),
               duration     |-> Get(fl[i], "duration") ] ]

\* plan_trip, line 168: (end_date - start_date).days if isinstance(start_date, str)
\* else 7; str - str and date - str both raise TypeError
TripDuration(start, end) ==
    IF start.type = "str"
    THEN [ raised |-> TRUE, exc |-> "TypeError" ]
    ELSE [ raised |-> FALSE, days |-> 7 ]

\* line 181 truncating from 500 characters on, not from 501
PoiSummary_from500(info) ==
    IF Len(info) >= PoiLimit
    THEN SubSeq(info, 1, PoiLimit) \o Ellipsis
    ELSE info

\* plan_trip, line 181
PoiSummary(info) ==
    IF Len(info) > PoiLimit
    THEN SubSeq(info, 1, PoiLimit) \o Ellipsis
    ELSE info

\* plan_trip, lines 169-174
DailyPlan(city) ==
    [ Day1   |-> << "Arrive in ", city, ", check-in, rest and explore nearby areas" >>,
      Day2_5 |-> << "Visit major attractions and landmarks" >>,
      Day6   |-> << "Shopping and local cuisine exploration" >>,
      Day7   |-> << "Last-minute sightseeing and departure preparation" >> ]

\* plan_trip, lines 177-183
ItineraryPlan(city, start, end, options, info) ==
    [ destination |-> city,
      travel_dates |-> << start.iso, " to ", end.iso >>,
      flights |-> options,
      poi_summary |-> PoiSummary(info),
      daily_plan |-> DailyPlan(city) ]

NoResponse == [ raises |-> FALSE, body |-> [ pending |-> TRUE ] ]

NoException == [ type |-> "none", from |-> "none" ]

Idle ==
    /\ invoked = << >>
    /\ calls = << >>
    /\ token = << >>
    /\ dep_lookup = << >>
    /\ arr_lookup = << >>
    /\ departure_iata = << >>
    /\ arrival_iata = << >>
    /\ response = NoResponse
    /\ result = Str(<< >>)
    /\ flights = << >>
    /\ poi_info = << >>
    /\ flight_options = << >>
    /\ itinerary = << >>
    /\ exception = NoException

\* a call of plan_trip(departure_city, arrival_city, start_date, end_date)
Init ==
    /\ tavily_key \in BOOLEAN
    /\ amadeus_creds \in BOOLEAN
    /\ departure_city \in Cities
    /\ arrival_city \in Cities \ { departure_city }
    /\ start_date \in Dates("2026-06-01")
    /\ end_date \in { d \in Dates("2026-06-08") : d.type = start_date.type }
    /\ pc = "lookup_departure"
    /\ Idle
    /\ text = << >>
    /\ extracted = << >>
    /\ tool_code = << >>

inputs == << tavily_key, amadeus_creds, departure_city, arrival_city, start_date, end_date >>

harness == << text, extracted, tool_code >>

\* line 69 with the test dropped
CodesMissing_never(dep, arr) == FALSE

\* search_flights, line 69: not departure_iata or not arrival_iata
CodesMissing(dep, arr) == dep = << >> \/ arr = << >>

\* search_flights, line 66
LookupDeparture ==
    /\ pc = "lookup_departure"
    /\ \E o \in IATAOutcomes :
         LET r == CityToIATATool_run(tavily_key, departure_city, o)
         IN  /\ invoked' = Append(invoked, [ tool |-> "CityToIATATool",
                                              city_name |-> departure_city ])
             /\ calls' = calls \o r.sent
             /\ dep_lookup' = r.ret
             /\ departure_iata' = _extract_iata_code(r.ret)
    /\ pc' = "lookup_arrival"
    /\ UNCHANGED << inputs, harness, arr_lookup, arrival_iata, token, response, result,
                    flights, poi_info, flight_options, itinerary, exception >>

\* search_flights, lines 67-71
LookupArrival ==
    /\ pc = "lookup_arrival"
    /\ \E o \in IATAOutcomes :
         LET r == CityToIATATool_run(tavily_key, arrival_city, o)
         IN  /\ invoked' = Append(invoked, [ tool |-> "CityToIATATool",
                                              city_name |-> arrival_city ])
             /\ calls' = calls \o r.sent
             /\ arr_lookup' = r.ret
             /\ arrival_iata' = _extract_iata_code(r.ret)
    /\ pc' = IF CodesMissing(departure_iata, arrival_iata')
             THEN "search_poi" ELSE "flight_auth"
    /\ UNCHANGED << inputs, harness, dep_lookup, departure_iata, token, response, result,
                    flights, poi_info, flight_options, itinerary, exception >>

\* search_flights, line 77, into FlightSearchTool._run, lines 43-46
FlightAuth ==
    /\ pc = "flight_auth"
    /\ \E o \in AuthOutcomes :
         LET r == FlightSearchTool_auth(amadeus_creds, o)
         IN  /\ invoked' = Append(invoked, [ tool |-> "FlightSearchTool",
                                              departure_iata |-> departure_iata,
                                              arrival_iata |-> arrival_iata ])
             /\ calls' = calls \o r.sent
             /\ IF r.returned
                THEN /\ result' = r.ret
                     /\ flights' = ParseFlights(r.ret)
                     /\ pc' = "search_poi"
                     /\ UNCHANGED token
                ELSE /\ token' = << r.token >>
                     /\ pc' = "flight_query"
                     /\ UNCHANGED << result, flights >>
    /\ UNCHANGED << inputs, harness, dep_lookup, arr_lookup, departure_iata, arrival_iata,
                    response, poi_info, flight_options, itinerary, exception >>

\* FlightSearchTool._run, lines 48-85, and search_flights, lines 84-92
FlightQuery ==
    /\ pc = "flight_query"
    /\ \E o \in OfferOutcomes :
         LET r == FlightSearchTool_query(departure_iata, arrival_iata,
                                         start_date, end_date, o)
         IN  /\ calls' = calls \o r.sent
             /\ response' = o
             /\ IF r.raised
                THEN /\ exception' = [ type |-> r.exc, from |-> "FlightSearchTool" ]
                     /\ pc' = "raised"
                     /\ UNCHANGED << result, flights >>
                ELSE /\ result' = r.ret
                     /\ flights' = ParseFlights(r.ret)
                     /\ pc' = "search_poi"
                     /\ UNCHANGED exception
    /\ UNCHANGED << inputs, harness, invoked, dep_lookup, arr_lookup, departure_iata,
                    arrival_iata, token, poi_info, flight_options, itinerary >>

\* plan_trip, line 149
SearchPoi ==
    /\ pc = "search_poi"
    /\ \E o \in POIOutcomes :
         LET r == POISearchTool_run(tavily_key, arrival_city, o)
         IN  /\ invoked' = Append(invoked, [ tool |-> "POISearchTool",
                                              city_name |-> arrival_city ])
             /\ calls' = calls \o r.sent
             /\ poi_info' = r.ret
    /\ pc' = "assemble"
    /\ UNCHANGED << inputs, harness, dep_lookup, arr_lookup, departure_iata, arrival_iata,
                    token, response, result, flights, flight_options, itinerary, exception >>

\* plan_trip, lines 155-186
Assemble ==
    /\ pc = "assemble"
    /\ flight_options' = FlightOptions(flights)
    /\ LET trip_duration == TripDuration(start_date, end_date)
       IN  IF trip_duration.raised
           THEN /\ exception' = [ type |-> trip_duration.exc, from |-> "plan_trip" ]
                /\ pc' = "raised"
                /\ UNCHANGED itinerary
           ELSE /\ itinerary' = << ItineraryPlan(arrival_city, start_date, end_date,
                                                 flight_options', poi_info) >>
                /\ pc' = "returned"
                /\ UNCHANGED exception
    /\ UNCHANGED << inputs, harness, invoked, calls, dep_lookup, arr_lookup,
                    departure_iata, arrival_iata, token, response, result, flights,
                    poi_info >>

Next ==
    \/ LookupDeparture
    \/ LookupArrival
    \/ FlightAuth
    \/ FlightQuery
    \/ SearchPoi
    \/ Assemble

Spec == Init /\ [][Next]_vars

-----------------------------------------------------------------------------
(* The extractor on its own: _extract_iata_code and the tool's own use of the *)
(* same pattern, applied to every short text and to the documented examples  *)

ExtractAlphabet == { "A", "B", "a", " ", "_" }

Texts ==
    UNION { [ 1 .. n -> ExtractAlphabet ] : n \in 0 .. MaxTextLen }
    \cup { SpecExampleCode, SpecExampleNone }

InitExtract ==
    /\ tavily_key = TRUE
    /\ amadeus_creds = TRUE
    /\ departure_city = Oslo
    /\ arrival_city = Rome
    /\ start_date = [ type |-> "str", iso |-> "2026-06-01" ]
    /\ end_date = [ type |-> "str", iso |-> "2026-06-08" ]
    /\ pc = "extract"
    /\ Idle
    /\ text \in Texts
    /\ extracted = << >>
    /\ tool_code = << >>

run == << invoked, calls, dep_lookup, arr_lookup, departure_iata, arrival_iata, token,
          response, result,
          flights, poi_info, flight_options, itinerary, exception >>

\* _extract_iata_code(text)
ExtractFromText ==
    /\ pc = "extract"
    /\ extracted' = _extract_iata_code(text)
    /\ pc' = "tool"
    /\ UNCHANGED << inputs, run, text, tool_code >>

\* CityToIATATool._run when the top result's content is text
ExtractInTool ==
    /\ pc = "tool"
    /\ tool_code' = CityToIATATool_run(TRUE, arrival_city,
                      [ raises |-> FALSE,
                        body |-> [ results |-> << [ content |-> text ] >> ] ]).ret
    /\ pc' = "extracted"
    /\ UNCHANGED << inputs, run, text, extracted >>

NextExtract == ExtractFromText \/ ExtractInTool

SpecExtract == InitExtract /\ [][NextExtract]_vars

-----------------------------------------------------------------------------
(* Vocabulary of the properties *)

\* plan_trip is over: it returned, or an exception left it
Finished == pc \in { "raised", "returned" }

\* the requests sent to one endpoint
Sent(to) == { i \in DOMAIN calls : calls[i].to = to }

\* the calls of one tool's _run
Invocations(tool) == { i \in DOMAIN invoked : invoked[i].tool = tool }

\* s.startswith(p)
StartsWith(s, p) == Len(p) <= Len(s) /\ SubSeq(s, 1, Len(p)) = p

\* a Location Resolver result that reports a failure instead of a code
ResolverFailure(t) ==
    \/ t = KeyMissingIATA
    \/ StartsWith(t, CouldNotFindPrefix)
    \/ StartsWith(t, CouldNotExtractPrefix)
    \/ StartsWith(t, IATAErrorPrefix)

\* a POI Lookup Client result that reports a failure
PoiFailure(t) == t = KeyMissingPOI \/ StartsWith(t, POIErrorPrefix)

\* the flight-offer provider answered the query
Answered == Sent("offers") # {} /\ ~response.raises

\* the offers of the provider's answer
ProviderOffers ==
    IF "data" \in DOMAIN response.body THEN response.body.data ELSE << >>

\* a three-letter uppercase token of s starts at i, with no letter, digit or
\* underscore next to it
StandaloneAt(s, i) ==
    /\ i + 2 <= Len(s)
    /\ { s[i], s[i + 1], s[i + 2] } \subseteq UpperLetters
    /\ i = 1 \/ ~IsWordChar(s[i - 1])
    /\ i + 2 = Len(s) \/ ~IsWordChar(s[i + 3])

\* the first such token of s, or the empty result
FirstStandalone(s) ==
    IF \A i \in DOMAIN s : ~StandaloneAt(s, i) THEN << >>
    ELSE LET i == CHOOSE k \in DOMAIN s :
                    StandaloneAt(s, k) /\ \A j \in 1 .. k - 1 : ~StandaloneAt(s, j)
         IN  << s[i], s[i + 1], s[i + 2] >>

\* the place of a request in the order of one run
Rank(c) ==
    IF c.to = "auth" THEN 3
    ELSE IF c.to = "offers" THEN 4
    ELSE IF c.query = IATAQueryPrefix \o departure_city THEN 1
    ELSE IF c.query = IATAQueryPrefix \o arrival_city THEN 2
    ELSE 5

-----------------------------------------------------------------------------
(* Properties *)

\* C1: with string-valued dates plan_trip never aborts with an exception, and
\* when it is over it has returned a populated ItineraryPlan.
C1_PlanAlwaysReturned ==
    (start_date.type = "str" /\ end_date.type = "str") =>
        /\ exception = NoException
        /\ Finished => Len(itinerary) = 1

\* C2: once both cities are looked up, a failure sentinel from the Location
\* Resolver for either city means the Flight Lookup Client is not called and
\* the flight list is empty.
C2_SentinelSkipsFlightSearch ==
    (Len(invoked) >= 2 /\ (ResolverFailure(dep_lookup) \/ ResolverFailure(arr_lookup))) =>
        /\ Invocations("FlightSearchTool") = {}
        /\ pc # "flight_auth"
        /\ Sent("auth") = {} /\ Sent("offers") = {}
        /\ flights = << >>

\* C3: without the search-provider key, every call of CityToIATATool._run and
\* of POISearchTool._run returns its key-missing message and sends no search
\* request.
C3_KeyMissingMessages ==
    ~tavily_key =>
        /\ Sent("search") = {}
        /\ Len(invoked) >= 1 => dep_lookup = KeyMissingIATA
        /\ Len(invoked) >= 2 => arr_lookup = KeyMissingIATA
        /\ Invocations("POISearchTool") # {} => poi_info = KeyMissingPOI

C3_Witness ==
    /\ ~tavily_key
    /\ Cardinality(Invocations("CityToIATATool")) = 2
    /\ Invocations("POISearchTool") # {}
    /\ poi_info = KeyMissingPOI

\* C4: without the search-provider key, a run of plan_trip sends no request to
\* any provider (no search, no auth, no flight-offer request), never enters
\* the flight search, and carries the key-missing report as its results.
C4_KeyMissingNoProviderCall ==
    ~tavily_key =>
        /\ calls = << >>
        /\ pc \notin { "flight_auth", "flight_query" }
        /\ Invocations("FlightSearchTool") = {}
        /\ pc \in { "assemble", "raised", "returned" } =>
             /\ dep_lookup = KeyMissingIATA
             /\ arr_lookup = KeyMissingIATA
             /\ poi_info = KeyMissingPOI

C4_Witness == ~tavily_key /\ amadeus_creds /\ Finished /\ calls = << >>

\* C5, as stated: when the provider answers, the Flight Lookup Client returns a
\* list: the empty list for zero offers, and at most 3 options for more than 3
\* offers.
C5_ClientReturnsList ==
    (Answered /\ exception.from # "FlightSearchTool") =>
        /\ result.json
        /\ ProviderOffers = << >> => result.v = << >>
        /\ Len(ProviderOffers) > 3 => Len(result.v) <= 3

\* C5, amended: for zero offers the Flight Lookup Client returns its "no
\* offers" message, which search_flights turns into the empty list; whenever it
\* returns options, they are one per offer of the provider, all of them, in the
\* provider's order, and search_flights returns them; the list plan_trip builds
\* is the first 3 of them at most, in the same order.
C5_FlightListFromOffers ==
    (Answered /\ exception.from # "FlightSearchTool") =>
        /\ ProviderOffers = << >> => result = Str(NoOffersFound) /\ flights = << >>
        /\ ProviderOffers # << >> =>
             /\ result.json
             /\ flights = result.v
             /\ Len(flights) = Len(ProviderOffers)
             /\ \A i \in DOMAIN flights :
                  /\ flights[i].price_usd = ProviderOffers[i].price.total
                  /\ flights[i].airline_code
                       = ProviderOffers[i].itineraries[1].segments[1].carrierCode
        /\ Finished =>
             /\ Len(flight_options) <= 3
             /\ Len(flight_options) = Min(3, Len(ProviderOffers))
             /\ \A i \in DOMAIN flight_options :
                  /\ flight_options[i].price_usd = ProviderOffers[i].price.total
                  /\ flight_options[i] = flights[i]

C5_Witness ==
    /\ Answered
    /\ Finished
    /\ Len(ProviderOffers) > 3
    /\ Len(flights) = Len(ProviderOffers)
    /\ Len(flight_options) = 3

\* C6: the Code Extractor returns the first standalone token of exactly three
\* uppercase letters of the text, and the empty result when the text holds
\* none.
C6_ExtractorFirstUppercaseToken ==
    pc \in { "tool", "extracted" } => extracted = FirstStandalone(text)

\* C7: no exception ever leaves a component below the Assembler.
C7_NoToolRaises ==
    exception.from \notin { "FlightSearchTool", "CityToIATATool", "POISearchTool" }

\* C8: when a run of plan_trip is over, the POI Lookup Client was called
\* exactly once, with the arrival city, and a failure sentinel it returned is
\* the plan's poi_summary (cut to 500 characters and "..." when longer).
C8_PoiSearchedOnceForArrival ==
    Finished =>
        /\ Cardinality(Invocations("POISearchTool")) = 1
        /\ \A i \in Invocations("POISearchTool") : invoked[i].city_name = arrival_city
        /\ PoiFailure(poi_info) =>
             /\ Len(itinerary) = 1
             /\ itinerary[1].poi_summary
                  = IF Len(poi_info) <= 500 THEN poi_info
                    ELSE SubSeq(poi_info, 1, 500) \o << ".", ".", "." >>

\* C9: the plan's poi_summary is the POI text unchanged when that is at most
\* 500 characters long, and otherwise its first 500 characters followed by
\* "...", so it is never longer than 503 characters.
C9_PoiSummaryTruncation ==
    Len(itinerary) = 1 =>
        LET summary == itinerary[1].poi_summary
        IN  /\ Len(summary) <= 503
            /\ Len(poi_info) <= 500 => summary = poi_info
            /\ Len(poi_info) > 500 =>
                 /\ Len(summary) = 503
                 /\ \A i \in 1 .. 500 : summary[i] = poi_info[i]
                 /\ \A i \in 501 .. 503 : summary[i] = "."

C9_Witness ==
    /\ Len(itinerary) = 1
    /\ Len(poi_info) > 500
    /\ Len(itinerary[1].poi_summary) = 503

\* C10: the requests of one run are sent in the order departure resolution,
\* arrival resolution, auth, flight offers, POI search, each at most once; the
\* auth request only if both codes resolved, the flight-offer request only
\* after an auth request that gave a token.
C10_CallOrder ==
    /\ \A i, j \in DOMAIN calls : i < j => Rank(calls[i]) < Rank(calls[j])
    /\ Sent("auth") # {} =>
         /\ dep_lookup # << >> /\ ~ResolverFailure(dep_lookup)
         /\ arr_lookup # << >> /\ ~ResolverFailure(arr_lookup)
    /\ Sent("offers") # {} => Sent("auth") # {} /\ token # << >>

\* The order of C10 alone: each request at most once, in the fixed order, the
\* auth request only when both extracted codes are non-empty.
CallOrderOfExtractedCodes ==
    /\ \A i, j \in DOMAIN calls : i < j => Rank(calls[i]) < Rank(calls[j])
    /\ Sent("auth") # {} => departure_iata # << >> /\ arrival_iata # << >>
    /\ Sent("offers") # {} => Sent("auth") # {} /\ token # << >>

====
